---- MODULE Spec2Model ----
(***************************************************************************)
(* Model of the edge middleware of QuoteSlate (middleware.js): the         *)
(* per-instance rate limiter with violation counting and progressive IP    *)
(* blocking, and the block list shared through Edge Config.                *)
(*                                                                         *)
(* Several instances run the same module; each has its own module-level    *)
(* state (blockedIPs, lastBlocklistRefresh, requestCounts,                 *)
(* violationCounts, edgeConfig).  The middleware is an async function: it  *)
(* runs atomically between two awaits, and requests of one instance        *)
(* interleave at the awaits (the refresh get, the get and the set of the   *)
(* append).  Time is counted in ticks; the configuration constants are     *)
(* scaled down to a few ticks and a few requests.                          *)
(***************************************************************************)
EXTENDS Integers, Sequences, FiniteSets, Bags

\* ---------------------------------------------------------------- configuration
RATE_LIMIT == 2
RATE_WINDOW_MS == 1
VIOLATION_THRESHOLD == 2
BLOCKLIST_REFRESH_MS == 1

\* ---------------------------------------------------------------- bounds
MaxTime == 4        \* ticks the clock advances after the start
MaxInFlight == 2    \* requests in flight at once, over all instances
ScenarioLen == 9    \* steps of the scripted client (its requests and its wait)

MaxHeaderLen == 2   \* tokens of a forwarding header

Instances == {"A", "B"}
IPs == {"x", "unknown"}

\* Date.now() at the start: far enough from 0 for the first request to find the
\* block list stale (lastBlocklistRefresh starts at 0).
Epoch == BLOCKLIST_REFRESH_MS + 1

VARIABLES
  clock,                 \* Date.now()
  store,                 \* Edge Config: the list under "blocked_ips"
  edgeConfig,            \* per instance: createClient succeeded
  blockedIPs,            \* per instance: the in-memory block list
  lastBlocklistRefresh,  \* per instance
  requestCounts,         \* per instance: ip -> {count, expires}; count 0 = no entry
  violationCounts,       \* per instance: ip -> violations; 0 = no entry
  reqs,                  \* the bag of requests suspended at an await
  lastResp,              \* the response sent by the last step (NoResp when it sent none)
  promoted,              \* history: per instance, the ips it answered 403 on promotion
  wins,                  \* history: per instance and ip, what its purged windows were
  scenario,              \* a scripted client is driving the instance
  log,                   \* history: what the scripted client did and was answered
  express                \* the Express server: its ENABLE_RATE_LIMIT, its limiter's hits

vars == <<clock, store, edgeConfig, blockedIPs, lastBlocklistRefresh,
          requestCounts, violationCounts, reqs, lastResp, promoted, wins,
          scenario, log, express>>

NoRecord == [count |-> 0, expires |-> 0]

\* ---------------------------------------------------------------- the client identity
\* The x-forwarded-for header of a request: absent (headers.get returns null), or
\* a text, written as its sequence of tokens: a "," or a run of other characters.
NoHeader == [present |-> FALSE, text |-> << >>]

Hdr(text) == [present |-> TRUE, text |-> text]

Tokens == {"x", ","}

Texts == UNION {[1..n -> Tokens] : n \in 0..MaxHeaderLen}

\* two runs of characters that touch are one token
Headers ==
  {NoHeader} \cup
  {Hdr(t) : t \in {u \in Texts : \A k \in 1..(Len(u) - 1) : u[k] = "," \/ u[k + 1] = ","}}

\* the headers the clients of the specifications send
ClientHeaders == {Hdr(<<"x">>)}

\* text.split(","): the elements between the commas
RECURSIVE Split(_)
Split(t) ==
  IF t = << >> THEN <<"">>
  ELSE IF Head(t) = "," THEN <<"">> \o Split(Tail(t))
  ELSE <<Head(t)>> \o Tail(Split(Tail(t)))

IdentityLastElement(h) ==
  IF ~h.present THEN "unknown"
  ELSE LET parts == Split(h.text)
       IN IF parts[Len(parts)] = "" THEN "unknown" ELSE parts[Len(parts)]

\* line 32: headers.get("x-forwarded-for")?.split(",")[0] || "unknown"
Identity(h) ==
  IF ~h.present THEN "unknown"
  ELSE IF Split(h.text)[1] = "" THEN "unknown" ELSE Split(h.text)[1]
\* A request: where it is suspended (pc), its locals (ip, now, the list read from
\* the store) and what it saw: the count, the expiry and the violations of its
\* window after it was counted, whether its own expired window was purged, how
\* many windows in a row had overflowed, and whether the instance had answered
\* 403 on a promotion of this ip before the request came in, and whether
\* something threw while it was handled.
NewReq == [pc |-> "start", inst |-> "A", hdr |-> NoHeader, ip |-> "x", now |-> 0,
            val |-> << >>,
            cnt |-> 0, exp |-> 0, vc |-> 0, purged |-> FALSE, consec |-> 0,
            afterPromo |-> FALSE, threw |-> FALSE]
NoResp == [out |-> "none", via |-> "none", inst |-> "A", hdr |-> NoHeader, ip |-> "x",
           now |-> 0,
           cnt |-> 0, exp |-> 0, vc |-> 0, purged |-> FALSE, consec |-> 0,
           afterPromo |-> FALSE, threw |-> FALSE]

\* ---------------------------------------------------------------- helpers
Range(s) == {s[k] : k \in 1..Len(s)}

IncludesNever(list, ip) == FALSE

Includes(list, ip) == ip \in Range(list)

Occurrences(list, ip) == Cardinality({k \in 1..Len(list) : list[k] = ip})

InFlight == BagToSet(reqs)

\* the requests in flight but r
Others(r) == reqs (-) SetToBag({r})

Suspend(pending, r) == reqs' = pending (+) SetToBag({r})

\* ---------------------------------------------------------------- the block list
IsBlockedAlways(blk, ip) == TRUE

IsBlockedNever(blk, ip) == FALSE

\* lines 37 and 51: blockedIPs.has(ip)
IsBlocked(blk, ip) == ip \in blk

StaleLate(now, last) == now - last > 2 * BLOCKLIST_REFRESH_MS

\* line 45: now - lastBlocklistRefresh > BLOCKLIST_REFRESH_MS
Stale(now, last) == now - last > BLOCKLIST_REFRESH_MS

\* ---------------------------------------------------------------- the rate limiter
ExpiredAtBoundary(rec, now) == rec.count > 0 /\ now >= rec.expires

Expired(rec, now) == rec.count > 0 /\ now > rec.expires

CleanCountsAll(rc, now) == [p \in IPs |-> NoRecord]

CleanCounts(rc, now) ==
  [p \in IPs |-> IF Expired(rc[p], now) THEN NoRecord ELSE rc[p]]

CleanViolationsKept(rc, vc, now) == vc

CleanViolations(rc, vc, now) ==
  [p \in IPs |-> IF Expired(rc[p], now) THEN 0 ELSE vc[p]]

CountRequestStuck(rc, ip, now) ==
  IF rc[ip].count = 0
    THEN [rc EXCEPT ![ip] = [count |-> 1, expires |-> now + RATE_WINDOW_MS]]
    ELSE rc

CountRequest(rc, ip, now) ==
  IF rc[ip].count = 0
    THEN [rc EXCEPT ![ip] = [count |-> 1, expires |-> now + RATE_WINDOW_MS]]
    ELSE [rc EXCEPT ![ip].count = @ + 1]

OverLimitOffByOne(rec) == rec.count >= RATE_LIMIT

OverLimit(rec) == rec.count > RATE_LIMIT

RecordViolationOnce(vc, ip) == [vc EXCEPT ![ip] = 1]

RecordViolation(vc, ip) == [vc EXCEPT ![ip] = @ + 1]

ReachedThresholdLate(v) == v > VIOLATION_THRESHOLD

ReachedThreshold(v) == v >= VIOLATION_THRESHOLD

CatchOutcome500 == "500"

\* the outcome of the global error handler
CatchOutcome == "PASS"

\* lines 128 and 135-137: Math.ceil((requestData.expires - now) / 1000), with the
\* clock of the model counting whole seconds (RATE_WINDOW_MS is a whole number of
\* seconds, line 15)
MsPerSecond == 1000

TickMs == MsPerSecond

RetryAfter(expires, now) == -(((now - expires) * TickMs) \div MsPerSecond)

\* ---------------------------------------------------------------- history
\* What the purged windows of an ip were: k >= 0 when the last k of them (counted
\* up to VIOLATION_THRESHOLD) overflowed, -1 when the last one stayed within the
\* limit and the one before it overflowed.
PurgedWindow(h, rec) ==
  IF OverLimit(rec)
    THEN (IF h < 0 THEN 1 ELSE IF h < VIOLATION_THRESHOLD THEN h + 1 ELSE h)
    ELSE (IF h > 0 THEN -1 ELSE 0)

PurgeHistory(h, rc, now) ==
  [p \in IPs |-> IF Expired(rc[p], now) THEN PurgedWindow(h[p], rc[p]) ELSE h[p]]

LeadingOverflows(h) == IF h < 0 THEN 0 ELSE h

\* ---------------------------------------------------------------- responses
Respond(r, out, via) ==
  /\ lastResp' = [out |-> out, via |-> via, inst |-> r.inst, hdr |-> r.hdr, ip |-> r.ip,
                  now |-> r.now,
                  cnt |-> r.cnt, exp |-> r.exp, vc |-> r.vc, purged |-> r.purged,
                  consec |-> r.consec, afterPromo |-> r.afterPromo, threw |-> r.threw]
  /\ log' = IF scenario
              THEN Append(log, [out |-> out, vc |-> r.vc, now |-> r.now, exp |-> r.exp])
              ELSE log
  /\ promoted' = IF out = "403" /\ via = "promote"
                   THEN [promoted EXCEPT ![r.inst] = @ \cup {r.ip}]
                   ELSE promoted

\* a denial: new NextResponse(...), or the global catch (lines 146-150) when
\* building it throws
Deny(r, status, via, throws) ==
  IF throws
    THEN Respond([r EXCEPT !.threw = TRUE], CatchOutcome, "catch")
    ELSE Respond(r, status, via)

\* a step that sends no response
Silent == lastResp' = NoResp /\ UNCHANGED <<promoted, log>>

\* ---------------------------------------------------------------- middleware, lines 64-145
\* r: the request, blk: the block list it continues with (after its refresh),
\* pending: the other requests in flight
RateLimit(pending, r, blk, throws) ==
  LET i == r.inst
      ip == r.ip
      now == r.now
      rc1 == CleanCounts(requestCounts[i], now)
      vc1 == CleanViolations(requestCounts[i], violationCounts[i], now)
      rc2 == CountRequest(rc1, ip, now)
      over == OverLimit(rc2[ip])
      vc2 == IF over THEN RecordViolation(vc1, ip) ELSE vc1
      h1 == PurgeHistory(wins[i], requestCounts[i], now)
      seen == [r EXCEPT !.cnt = rc2[ip].count, !.exp = rc2[ip].expires, !.vc = vc2[ip],
                        !.purged = Expired(requestCounts[i][ip], now),
                        !.consec = IF over THEN 1 + LeadingOverflows(h1[ip]) ELSE 0]
  IN /\ requestCounts' = [requestCounts EXCEPT ![i] = rc2]
     /\ violationCounts' = [violationCounts EXCEPT ![i] = vc2]
     /\ wins' = [wins EXCEPT ![i] = h1]
     /\ IF over /\ ReachedThreshold(vc2[ip])
          THEN /\ blockedIPs' = [blockedIPs EXCEPT ![i] = blk \cup {ip}]
               /\ IF edgeConfig[i]
                    THEN /\ ~throws
                         \* (now and the record are not read after line 91 on this path)
                         /\ Suspend(pending, [seen EXCEPT !.pc = "promote_get",
                                                           !.now = 0, !.exp = 0])
                         /\ Silent
                    ELSE /\ Deny(seen, "403", "promote", throws)
                         /\ reqs' = pending
          ELSE /\ blockedIPs' = [blockedIPs EXCEPT ![i] = blk]
               /\ IF over
                    THEN Deny(seen, "429", "rate", throws)
                    ELSE ~throws /\ Respond(seen, "PASS", "next")
               /\ reqs' = pending

\* ---------------------------------------------------------------- middleware, lines 31-62
StartIgnoresClient(i, hdr, throws) ==
  /\ BagCardinality(reqs) < MaxInFlight
  /\ LET ip == Identity(hdr)
         r == [NewReq EXCEPT !.inst = i, !.hdr = hdr, !.ip = ip, !.now = clock,
                             !.afterPromo = ip \in promoted[i]]
     IN IF IsBlocked(blockedIPs[i], ip)
          THEN /\ Deny(r, "403", "cache", throws)
               /\ UNCHANGED <<blockedIPs, requestCounts, violationCounts, reqs, wins>>
          ELSE IF Stale(r.now, lastBlocklistRefresh[i])
                 THEN /\ ~throws
                      /\ Suspend(reqs, [r EXCEPT !.pc = "refresh_get"])
                      /\ Silent
                      /\ UNCHANGED <<blockedIPs, requestCounts, violationCounts, wins>>
                 ELSE RateLimit(reqs, r, blockedIPs[i], throws)
  /\ UNCHANGED <<express, scenario, clock, store, edgeConfig, lastBlocklistRefresh>>

StartRefreshFirst(i, hdr, throws) ==
  /\ BagCardinality(reqs) < MaxInFlight
  /\ LET ip == Identity(hdr)
         r == [NewReq EXCEPT !.inst = i, !.hdr = hdr, !.ip = ip, !.now = clock,
                             !.afterPromo = ip \in promoted[i]]
     IN IF edgeConfig[i] /\ Stale(r.now, lastBlocklistRefresh[i])
          THEN /\ ~throws
               /\ Suspend(reqs, [r EXCEPT !.pc = "refresh_get"])
               /\ Silent
               /\ UNCHANGED <<blockedIPs, requestCounts, violationCounts, wins>>
          ELSE IF IsBlocked(blockedIPs[i], ip)
                 THEN /\ Deny(r, "403", "cache", throws)
                      /\ UNCHANGED <<blockedIPs, requestCounts, violationCounts, reqs, wins>>
                 ELSE RateLimit(reqs, r, blockedIPs[i], throws)
  /\ UNCHANGED <<express, scenario, clock, store, edgeConfig, lastBlocklistRefresh>>

Start(i, hdr, throws) ==
  /\ BagCardinality(reqs) < MaxInFlight
  /\ LET ip == Identity(hdr)
         r == [NewReq EXCEPT !.inst = i, !.hdr = hdr, !.ip = ip, !.now = clock,
                             !.afterPromo = ip \in promoted[i]]
     IN IF IsBlocked(blockedIPs[i], ip)
          THEN /\ Deny(r, "403", "cache", throws)
               /\ UNCHANGED <<blockedIPs, requestCounts, violationCounts, reqs, wins>>
          ELSE IF edgeConfig[i] /\ Stale(r.now, lastBlocklistRefresh[i])
                 THEN /\ ~throws
                      /\ Suspend(reqs, [r EXCEPT !.pc = "refresh_get"])
                      /\ Silent
                      /\ UNCHANGED <<blockedIPs, requestCounts, violationCounts, wins>>
                 ELSE RateLimit(reqs, r, blockedIPs[i], throws)
  /\ UNCHANGED <<express, scenario, clock, store, edgeConfig, lastBlocklistRefresh>>

\* the store answers the get of a refresh; the answer is on its way
RefreshGetServed(r) ==
  /\ r.pc = "refresh_get"
  /\ Suspend(Others(r), [r EXCEPT !.pc = "refresh_got", !.val = store])
  /\ Silent
  /\ UNCHANGED <<express, scenario, clock, store, edgeConfig, blockedIPs, lastBlocklistRefresh,
                 requestCounts, violationCounts, wins>>

RefreshReturnShared(r, throws) ==
  /\ r.pc = "refresh_got"
  /\ lastBlocklistRefresh' = [i \in Instances |-> r.now]
  /\ LET blk == Range(r.val)
     IN IF IsBlocked(blk, r.ip)
          THEN IF throws
                 THEN RateLimit(Others(r), [r EXCEPT !.threw = TRUE], blk, FALSE)
                 ELSE /\ blockedIPs' = [blockedIPs EXCEPT ![r.inst] = blk]
                      /\ Respond(r, "403", "refresh")
                      /\ reqs' = Others(r)
                      /\ UNCHANGED <<requestCounts, violationCounts, wins>>
          ELSE RateLimit(Others(r), r, blk, throws)
  /\ UNCHANGED <<express, scenario, clock, store, edgeConfig>>

RefreshReturnMerges(r, throws) ==
  /\ r.pc = "refresh_got"
  /\ lastBlocklistRefresh' = [lastBlocklistRefresh EXCEPT ![r.inst] = r.now]
  /\ LET blk == Range(r.val) \cup blockedIPs[r.inst]
     IN IF IsBlocked(blk, r.ip)
          THEN IF throws
                 THEN RateLimit(Others(r), [r EXCEPT !.threw = TRUE], blk, FALSE)
                 ELSE /\ blockedIPs' = [blockedIPs EXCEPT ![r.inst] = blk]
                      /\ Respond(r, "403", "refresh")
                      /\ reqs' = Others(r)
                      /\ UNCHANGED <<requestCounts, violationCounts, wins>>
          ELSE RateLimit(Others(r), r, blk, throws)
  /\ UNCHANGED <<express, scenario, clock, store, edgeConfig>>

\* lines 47-58: the await of the refresh returns a list
RefreshReturn(r, throws) ==
  /\ r.pc = "refresh_got"
  /\ lastBlocklistRefresh' = [lastBlocklistRefresh EXCEPT ![r.inst] = r.now]
  /\ LET blk == Range(r.val)
     IN IF IsBlocked(blk, r.ip)
          THEN IF throws
                 \* building the 403 of line 52 throws inside the try of the
                 \* refresh: its catch (line 59) logs, and the request goes on
                 THEN RateLimit(Others(r), [r EXCEPT !.threw = TRUE], blk, FALSE)
                 ELSE /\ blockedIPs' = [blockedIPs EXCEPT ![r.inst] = blk]
                      /\ Respond(r, "403", "refresh")
                      /\ reqs' = Others(r)
                      /\ UNCHANGED <<requestCounts, violationCounts, wins>>
          ELSE RateLimit(Others(r), r, blk, throws)
  /\ UNCHANGED <<express, scenario, clock, store, edgeConfig>>

RefreshFailBacksOff(r, throws) ==
  /\ r.pc = "refresh_get"
  /\ RateLimit(Others(r), r, blockedIPs[r.inst], throws)
  /\ lastBlocklistRefresh' = [lastBlocklistRefresh EXCEPT ![r.inst] = r.now]
  /\ UNCHANGED <<express, scenario, clock, store, edgeConfig>>

RefreshFailClears(r, throws) ==
  /\ r.pc = "refresh_get"
  /\ RateLimit(Others(r), r, {}, throws)
  /\ UNCHANGED <<express, scenario, clock, store, edgeConfig, lastBlocklistRefresh>>

\* lines 59-61: the await of the refresh throws
RefreshFail(r, throws) ==
  /\ r.pc = "refresh_get"
  /\ RateLimit(Others(r), r, blockedIPs[r.inst], throws)
  /\ UNCHANGED <<express, scenario, clock, store, edgeConfig, lastBlocklistRefresh>>

PromoteGetReturnOverwrites(r, throws) ==
  /\ r.pc = "promote_get"
  /\ IF Includes(store, r.ip)
       THEN /\ Deny(r, "403", "promote", throws)
            /\ reqs' = Others(r)
       ELSE /\ ~throws
            /\ Suspend(Others(r), [r EXCEPT !.pc = "promote_set", !.val = <<r.ip>>])
            /\ Silent
  /\ UNCHANGED <<express, scenario, clock, store, edgeConfig, blockedIPs, lastBlocklistRefresh,
                 requestCounts, violationCounts, wins>>

\* lines 98-100: the get of the append returns the current list
PromoteGetReturn(r, throws) ==
  /\ r.pc = "promote_get"
  /\ IF Includes(store, r.ip)
       THEN /\ Deny(r, "403", "promote", throws)
            /\ reqs' = Others(r)
       ELSE /\ ~throws
            /\ Suspend(Others(r), [r EXCEPT !.pc = "promote_set", !.val = Append(store, r.ip)])
            /\ Silent
  /\ UNCHANGED <<express, scenario, clock, store, edgeConfig, blockedIPs, lastBlocklistRefresh,
                 requestCounts, violationCounts, wins>>

PromoteFailForwards(r, throws) ==
  /\ r.pc \in {"promote_get", "promote_set"}
  /\ Respond(r, "PASS", "next")
  /\ reqs' = Others(r)
  /\ UNCHANGED <<express, scenario, clock, store, edgeConfig, blockedIPs, lastBlocklistRefresh,
                 requestCounts, violationCounts, wins>>

\* lines 105-110: the get or the set of the append throws
PromoteFail(r, throws) ==
  /\ r.pc \in {"promote_get", "promote_set"}
  /\ Deny(r, "403", "promote", throws)
  /\ reqs' = Others(r)
  /\ UNCHANGED <<express, scenario, clock, store, edgeConfig, blockedIPs, lastBlocklistRefresh,
                 requestCounts, violationCounts, wins>>

PromoteSetRetries(r, throws) ==
  /\ r.pc = "promote_set"
  /\ Suspend(Others(r), [r EXCEPT !.pc = "promote_get", !.val = << >>])
  /\ Silent
  /\ UNCHANGED <<express, scenario, clock, store, edgeConfig, blockedIPs, lastBlocklistRefresh,
                 requestCounts, violationCounts, wins>>

\* line 100: the set of the append is applied and returns
PromoteSetReturn(r, throws) ==
  /\ r.pc = "promote_set"
  /\ store' = r.val
  /\ Deny(r, "403", "promote", throws)
  /\ reqs' = Others(r)
  /\ UNCHANGED <<express, scenario, clock, edgeConfig, blockedIPs, lastBlocklistRefresh,
                 requestCounts, violationCounts, wins>>

Tick ==
  /\ clock < Epoch + MaxTime
  /\ clock' = clock + 1
  /\ Silent
  /\ UNCHANGED <<express, scenario, store, edgeConfig, blockedIPs, lastBlocklistRefresh,
                 requestCounts, violationCounts, reqs, wins>>

\* ---------------------------------------------------------------- the Express server
\* src/index.js: the API server puts a limiter (express-rate-limit: at most max
\* requests per ip and window, 429 beyond) before its /api routes unless
\* ENABLE_RATE_LIMIT is "false".
max == 2

MaxOver == 2   \* requests beyond max a client sends within one window

\* process.env.ENABLE_RATE_LIMIT; "undefined" stands for the variable not set
EnvValues == {"undefined", "true", "false", "0"}

NoExpress == [env |-> "undefined", hits |-> [p \in IPs |-> 0], sent |-> [p \in IPs |-> 0]]

enableRateLimitAlways(env) == TRUE

enableRateLimit(env) == env # "false"

\* a request to /api/: counted and checked by the limiter if there is one
\* (sent: history, the requests of the ip in its window)
ExpressRequest(ip) ==
  /\ express.sent[ip] < max + MaxOver
  /\ LET limited == enableRateLimit(express.env)
         hits == IF limited THEN express.hits[ip] + 1 ELSE express.hits[ip]
     IN /\ express' = [express EXCEPT !.hits[ip] = hits, !.sent[ip] = @ + 1]
        /\ lastResp' = [NoResp EXCEPT !.ip = ip, !.cnt = hits, !.via = "express",
                                      !.out = IF limited /\ hits > max THEN "429" ELSE "PASS"]
  /\ UNCHANGED <<clock, store, edgeConfig, blockedIPs, lastBlocklistRefresh, requestCounts,
                 violationCounts, reqs, promoted, wins, scenario, log>>

\* windowMs after its first hit the window of an ip is over
ExpressWindowExpires(ip) ==
  /\ express.sent[ip] > 0
  /\ express' = [express EXCEPT !.hits[ip] = 0, !.sent[ip] = 0]
  /\ lastResp' = NoResp
  /\ UNCHANGED <<clock, store, edgeConfig, blockedIPs, lastBlocklistRefresh, requestCounts,
                 violationCounts, reqs, promoted, wins, scenario, log>>

\* ---------------------------------------------------------------- specification
\* One instance, its store client in place, the store answering or failing.
Init ==
  /\ clock = Epoch
  /\ store = << >>
  /\ edgeConfig = [i \in Instances |-> TRUE]
  /\ blockedIPs = [i \in Instances |-> {}]
  /\ lastBlocklistRefresh = [i \in Instances |-> 0]
  /\ requestCounts = [i \in Instances |-> [p \in IPs |-> NoRecord]]
  /\ violationCounts = [i \in Instances |-> [p \in IPs |-> 0]]
  /\ reqs = EmptyBag
  /\ lastResp = NoResp
  /\ promoted = [i \in Instances |-> {}]
  /\ wins = [i \in Instances |-> [p \in IPs |-> 0]]
  /\ scenario = FALSE
  /\ log = << >>
  /\ express = NoExpress

Next ==
  \/ \E h \in ClientHeaders, throws \in BOOLEAN : Start("A", h, throws)
  \/ \E r \in InFlight : RefreshGetServed(r)
  \/ \E r \in InFlight, throws \in BOOLEAN : RefreshReturn(r, throws)
  \/ \E r \in InFlight, throws \in BOOLEAN : RefreshFail(r, throws)
  \/ \E r \in InFlight, throws \in BOOLEAN : PromoteGetReturn(r, throws)
  \/ \E r \in InFlight, throws \in BOOLEAN : PromoteFail(r, throws)
  \/ \E r \in InFlight, throws \in BOOLEAN : PromoteSetReturn(r, throws)
  \/ Tick

Spec == Init /\ [][Next]_vars

\* The store is out of service: every get and every set throws.
NextStoreDown ==
  \/ \E h \in ClientHeaders, throws \in BOOLEAN : Start("A", h, throws)
  \/ \E r \in InFlight, throws \in BOOLEAN : RefreshFail(r, throws)
  \/ \E r \in InFlight, throws \in BOOLEAN : PromoteFail(r, throws)
  \/ Tick

SpecStoreDown == Init /\ [][NextStoreDown]_vars

\* Two instances that share the store, within one tick of the clock.  Each starts
\* where a run of requests whose refreshes all failed has left it: every ip one
\* request short of its promotion.
InitCluster ==
  /\ clock = Epoch
  /\ store = << >>
  /\ edgeConfig = [i \in Instances |-> TRUE]
  /\ blockedIPs = [i \in Instances |-> {}]
  /\ lastBlocklistRefresh = [i \in Instances |-> 0]
  /\ requestCounts = [i \in Instances |-> [p \in IPs |->
        [count |-> RATE_LIMIT + VIOLATION_THRESHOLD - 1, expires |-> Epoch + RATE_WINDOW_MS]]]
  /\ violationCounts = [i \in Instances |-> [p \in IPs |-> VIOLATION_THRESHOLD - 1]]
  /\ reqs = EmptyBag
  /\ lastResp = NoResp
  /\ promoted = [i \in Instances |-> {}]
  /\ wins = [i \in Instances |-> [p \in IPs |-> 0]]
  /\ scenario = FALSE
  /\ log = << >>
  /\ express = NoExpress

NextCluster ==
  \/ \E i \in Instances, h \in ClientHeaders, throws \in BOOLEAN : Start(i, h, throws)
  \/ \E r \in InFlight : RefreshGetServed(r)
  \/ \E r \in InFlight, throws \in BOOLEAN : RefreshReturn(r, throws)
  \/ \E r \in InFlight, throws \in BOOLEAN : RefreshFail(r, throws)
  \/ \E r \in InFlight, throws \in BOOLEAN : PromoteGetReturn(r, throws)
  \/ \E r \in InFlight, throws \in BOOLEAN : PromoteFail(r, throws)
  \/ \E r \in InFlight, throws \in BOOLEAN : PromoteSetReturn(r, throws)

SpecCluster == InitCluster /\ [][NextCluster]_vars

\* ---------------------------------------------------------------- the scripted client
\* One client "x" on instance "A", one request at a time, the store healthy and
\* nothing throwing: three requests inside one window, a wait of one window
\* length, then requests inside one window until the script ends.
ScnWaitAt == RATE_LIMIT + 2

WindowOpen == requestCounts["A"]["x"].count > 0 /\ clock <= requestCounts["A"]["x"].expires

ScnRequest ==
  /\ scenario
  /\ reqs = EmptyBag
  /\ Len(log) < ScenarioLen
  /\ Len(log) + 1 # ScnWaitAt
  /\ Len(log) + 1 \in {2, 3, 6, 7, 8} => WindowOpen
  /\ Start("A", Hdr(<<"x">>), FALSE)

ScnWait ==
  /\ scenario
  /\ reqs = EmptyBag
  /\ Len(log) + 1 = ScnWaitAt
  /\ clock + RATE_WINDOW_MS <= Epoch + MaxTime
  /\ clock' = clock + RATE_WINDOW_MS
  /\ log' = Append(log, [out |-> "wait", vc |-> 0, now |-> clock', exp |-> 0])
  /\ lastResp' = NoResp
  /\ UNCHANGED <<express, scenario, store, edgeConfig, blockedIPs, lastBlocklistRefresh,
                 requestCounts, violationCounts, reqs, promoted, wins>>

InitScenario ==
  /\ clock = Epoch
  /\ store = << >>
  /\ edgeConfig = [i \in Instances |-> TRUE]
  /\ blockedIPs = [i \in Instances |-> {}]
  /\ lastBlocklistRefresh = [i \in Instances |-> 0]
  /\ requestCounts = [i \in Instances |-> [p \in IPs |-> NoRecord]]
  /\ violationCounts = [i \in Instances |-> [p \in IPs |-> 0]]
  /\ reqs = EmptyBag
  /\ lastResp = NoResp
  /\ promoted = [i \in Instances |-> {}]
  /\ wins = [i \in Instances |-> [p \in IPs |-> 0]]
  /\ scenario = TRUE
  /\ log = << >>
  /\ express = NoExpress

NextScenario ==
  \/ ScnRequest
  \/ ScnWait
  \/ \E r \in InFlight : RefreshGetServed(r)
  \/ \E r \in InFlight : RefreshReturn(r, FALSE)
  \/ \E r \in InFlight : PromoteGetReturn(r, FALSE)
  \/ \E r \in InFlight : PromoteSetReturn(r, FALSE)
  \/ Tick

SpecScenario == InitScenario /\ [][NextScenario]_vars

\* ---------------------------------------------------------------- a list that is in the store
\* Instance B has promoted "x" at the start (four requests in its first window,
\* its refresh and its append served), so the store has held "x" since Epoch.
\* Instance A has never seen "x": it is fresh, or it has served a request without
\* a forwarding header whose refresh read the store before the append, or that
\* request is still waiting for the answer of its refresh.
StaleBase ==
  /\ clock = Epoch
  /\ store = <<"x">>
  /\ edgeConfig = [i \in Instances |-> TRUE]
  /\ blockedIPs = [i \in Instances |-> IF i = "B" THEN {"x"} ELSE {}]
  /\ violationCounts = [i \in Instances |-> [p \in IPs |->
        IF i = "B" /\ p = "x" THEN VIOLATION_THRESHOLD ELSE 0]]
  /\ lastResp = NoResp
  /\ promoted = [i \in Instances |-> IF i = "B" THEN {"x"} ELSE {}]
  /\ wins = [i \in Instances |-> [p \in IPs |-> 0]]
  /\ scenario = FALSE
  /\ log = << >>
  /\ express = NoExpress

PromotedRecord == [count |-> RATE_LIMIT + VIOLATION_THRESHOLD, expires |-> Epoch + RATE_WINDOW_MS]

FirstRecord == [count |-> 1, expires |-> Epoch + RATE_WINDOW_MS]

InitStale ==
  /\ StaleBase
  /\ \/ /\ lastBlocklistRefresh = [i \in Instances |-> IF i = "B" THEN Epoch ELSE 0]
        /\ requestCounts = [i \in Instances |-> [p \in IPs |->
              IF i = "B" /\ p = "x" THEN PromotedRecord ELSE NoRecord]]
        /\ reqs \in {EmptyBag,
                     SetToBag({[NewReq EXCEPT !.pc = "refresh_got", !.ip = "unknown",
                                              !.now = Epoch]})}
     \/ /\ lastBlocklistRefresh = [i \in Instances |-> Epoch]
        /\ requestCounts = [i \in Instances |-> [p \in IPs |->
              IF i = "B" /\ p = "x" THEN PromotedRecord
              ELSE IF i = "A" /\ p = "unknown" THEN FirstRecord ELSE NoRecord]]
        /\ reqs = EmptyBag

\* the store answers every get
NextStale ==
  \/ \E h \in ClientHeaders, throws \in BOOLEAN : Start("A", h, throws)
  \/ \E r \in InFlight : RefreshGetServed(r)
  \/ \E r \in InFlight, throws \in BOOLEAN : RefreshReturn(r, throws)
  \/ \E r \in InFlight, throws \in BOOLEAN : PromoteGetReturn(r, throws)
  \/ Tick

SpecStale == InitStale /\ [][NextStale]_vars

\* Requests with any forwarding header, one at a time, the store healthy.
IdentityRequest(h) ==
  /\ reqs = EmptyBag
  /\ Start("A", h, FALSE)

NextIdentity ==
  \/ \E h \in Headers : IdentityRequest(h)
  \/ \E r \in InFlight : RefreshGetServed(r)
  \/ \E r \in InFlight : RefreshReturn(r, FALSE)
  \/ \E r \in InFlight : PromoteGetReturn(r, FALSE)
  \/ \E r \in InFlight : PromoteSetReturn(r, FALSE)

SpecIdentity == Init /\ [][NextIdentity]_vars

\* the Express server on its own, started with any value of ENABLE_RATE_LIMIT
InitExpress ==
  /\ clock = Epoch
  /\ store = << >>
  /\ edgeConfig = [i \in Instances |-> TRUE]
  /\ blockedIPs = [i \in Instances |-> {}]
  /\ lastBlocklistRefresh = [i \in Instances |-> 0]
  /\ requestCounts = [i \in Instances |-> [p \in IPs |-> NoRecord]]
  /\ violationCounts = [i \in Instances |-> [p \in IPs |-> 0]]
  /\ reqs = EmptyBag
  /\ lastResp = NoResp
  /\ promoted = [i \in Instances |-> {}]
  /\ wins = [i \in Instances |-> [p \in IPs |-> 0]]
  /\ scenario = FALSE
  /\ log = << >>
  /\ \E e \in EnvValues : express = [NoExpress EXCEPT !.env = e]

NextExpress ==
  \/ \E ip \in IPs : ExpressRequest(ip)
  \/ \E ip \in IPs : ExpressWindowExpires(ip)

SpecExpress == InitExpress /\ [][NextExpress]_vars

\* ---------------------------------------------------------------- a failing store and no store
\* Instance "A" has a store client whose every call throws, instance "B" has
\* none (createClient threw, line 27).  Each request is handled to its end by
\* "A" and then, at the same time and with the same header, by "B".
PairHeaders == {Hdr(<<"x">>), NoHeader}

\* "A" has answered and "B" has not yet handled the same request
SecondDue == lastResp.out # "none" /\ lastResp.inst = "A"

PairFirst(h) ==
  /\ reqs = EmptyBag
  /\ ~SecondDue
  /\ Start("A", h, FALSE)

PairSecond ==
  /\ reqs = EmptyBag
  /\ SecondDue
  /\ Start("B", lastResp.hdr, FALSE)

PairTick ==
  /\ reqs = EmptyBag
  /\ ~SecondDue
  /\ Tick

InitPair ==
  /\ clock = Epoch
  /\ store = << >>
  /\ edgeConfig = [i \in Instances |-> i = "A"]
  /\ blockedIPs = [i \in Instances |-> {}]
  /\ lastBlocklistRefresh = [i \in Instances |-> 0]
  /\ requestCounts = [i \in Instances |-> [p \in IPs |-> NoRecord]]
  /\ violationCounts = [i \in Instances |-> [p \in IPs |-> 0]]
  /\ reqs = EmptyBag
  /\ lastResp = NoResp
  /\ promoted = [i \in Instances |-> {}]
  /\ wins = [i \in Instances |-> [p \in IPs |-> 0]]
  /\ scenario = FALSE
  /\ log = << >>
  /\ express = NoExpress

NextPair ==
  \/ \E h \in PairHeaders : PairFirst(h)
  \/ PairSecond
  \/ \E r \in InFlight : RefreshFail(r, FALSE)
  \/ \E r \in InFlight : PromoteGetReturn(r, FALSE)
  \/ \E r \in InFlight : PromoteFail(r, FALSE)
  \/ PairTick

SpecPair == InitPair /\ [][NextPair]_vars

\* ---------------------------------------------------------------- two promotions at once
\* Two instances and two identities, the store healthy.  The store list holds
\* an identity that was blocked earlier; both instances have fetched it at
\* Epoch, and on both every ip is one request short of its promotion.
Earlier == "z"

InitRace ==
  /\ clock = Epoch
  /\ store = <<Earlier>>
  /\ edgeConfig = [i \in Instances |-> TRUE]
  /\ blockedIPs = [i \in Instances |-> {Earlier}]
  /\ lastBlocklistRefresh = [i \in Instances |-> Epoch]
  /\ requestCounts = [i \in Instances |-> [p \in IPs |->
        [count |-> RATE_LIMIT + VIOLATION_THRESHOLD - 1, expires |-> Epoch + RATE_WINDOW_MS]]]
  /\ violationCounts = [i \in Instances |-> [p \in IPs |-> VIOLATION_THRESHOLD - 1]]
  /\ reqs = EmptyBag
  /\ lastResp = NoResp
  /\ promoted = [i \in Instances |-> {}]
  /\ wins = [i \in Instances |-> [p \in IPs |-> 0]]
  /\ scenario = FALSE
  /\ log = << >>
  /\ express = NoExpress

NextRace ==
  \/ \E i \in Instances, h \in PairHeaders : Start(i, h, FALSE)
  \/ \E r \in InFlight : PromoteGetReturn(r, FALSE)
  \/ \E r \in InFlight : PromoteSetReturn(r, FALSE)

SpecRace == InitRace /\ [][NextRace]_vars

\* ---------------------------------------------------------------- two instances, full windows
\* Two instances that share the store, within one tick of the clock.  Each starts
\* where RATE_LIMIT forwarded requests whose refreshes failed have left it: the
\* window is full and no violation is recorded.
InitEscalation ==
  /\ clock = Epoch
  /\ store = << >>
  /\ edgeConfig = [i \in Instances |-> TRUE]
  /\ blockedIPs = [i \in Instances |-> {}]
  /\ lastBlocklistRefresh = [i \in Instances |-> 0]
  /\ requestCounts = [i \in Instances |-> [p \in IPs |->
        [count |-> RATE_LIMIT, expires |-> Epoch + RATE_WINDOW_MS]]]
  /\ violationCounts = [i \in Instances |-> [p \in IPs |-> 0]]
  /\ reqs = EmptyBag
  /\ lastResp = NoResp
  /\ promoted = [i \in Instances |-> {}]
  /\ wins = [i \in Instances |-> [p \in IPs |-> 0]]
  /\ scenario = FALSE
  /\ log = << >>
  /\ express = NoExpress

SpecEscalation == InitEscalation /\ [][NextCluster]_vars

\* ---------------------------------------------------------------- two identities, one at a time
\* One instance, the store healthy, requests of two identities (one of them the
\* requests without forwarding header), each handled to its end before the
\* next one comes in, the clock going on at any moment.
NextWindow ==
  \/ \E h \in PairHeaders : IdentityRequest(h)
  \/ \E r \in InFlight : RefreshGetServed(r)
  \/ \E r \in InFlight : RefreshReturn(r, FALSE)
  \/ \E r \in InFlight : PromoteGetReturn(r, FALSE)
  \/ \E r \in InFlight : PromoteSetReturn(r, FALSE)
  \/ Tick

SpecWindow == Init /\ [][NextWindow]_vars

\* ---------------------------------------------------------------- two instances from the start
\* Two instances that share the store, both as they are after the module has
\* been loaded, within one tick of the clock.
NextIsolation ==
  \/ \E i \in Instances, h \in ClientHeaders : Start(i, h, FALSE)
  \/ \E r \in InFlight : RefreshGetServed(r)
  \/ \E r \in InFlight : RefreshReturn(r, FALSE)
  \/ \E r \in InFlight : PromoteGetReturn(r, FALSE)
  \/ \E r \in InFlight : PromoteSetReturn(r, FALSE)
  \/ \E r \in InFlight : RefreshFail(r, FALSE)
  \/ \E r \in InFlight : PromoteFail(r, FALSE)

SpecIsolation == Init /\ [][NextIsolation]_vars

\* ---------------------------------------------------------------- a store that answers
\* One instance, one request at a time.  Every store call a request waits for
\* is answered in the end, with a result or with an exception: weak fairness
\* on the answers of the store.
LiveRequest(h, throws) ==
  /\ reqs = EmptyBag
  /\ Start("A", h, throws)

StoreAnswers ==
  \E r \in InFlight, throws \in BOOLEAN :
    \/ RefreshGetServed(r)
    \/ RefreshReturn(r, throws)
    \/ RefreshFail(r, throws)
    \/ PromoteGetReturn(r, throws)
    \/ PromoteFail(r, throws)
    \/ PromoteSetReturn(r, throws)

NextLive ==
  \/ \E h \in ClientHeaders, throws \in BOOLEAN : LiveRequest(h, throws)
  \/ StoreAnswers
  \/ Tick

SpecLive == Init /\ [][NextLive]_vars /\ WF_vars(StoreAnswers)

\* ---------------------------------------------------------------- a healthy store and no store
\* Instance "A" has a store client and a store that answers, instance "B" has
\* no client (createClient threw, line 27).  Each request is handled to its end
\* by "A" and then, at the same time and with the same header, by "B".
NextNoClient ==
  \/ \E h \in PairHeaders : PairFirst(h)
  \/ PairSecond
  \/ \E r \in InFlight : RefreshGetServed(r)
  \/ \E r \in InFlight : RefreshReturn(r, FALSE)
  \/ \E r \in InFlight : PromoteGetReturn(r, FALSE)
  \/ \E r \in InFlight : PromoteSetReturn(r, FALSE)
  \/ PairTick

SpecNoClient == InitPair /\ [][NextNoClient]_vars

\* ---------------------------------------------------------------- properties
TypeOK ==
  /\ clock \in Epoch..(Epoch + MaxTime)
  /\ \A i \in Instances : blockedIPs[i] \subseteq IPs \cup {Earlier} /\ promoted[i] \subseteq IPs
  /\ lastResp.out \in {"none", "PASS", "429", "403"}
  /\ BagCardinality(reqs) <= MaxInFlight

\* the last step answered a request that went through the window count, and
\* nothing threw while it was handled
RateChecked == lastResp.out # "none" /\ lastResp.cnt > 0 /\ ~lastResp.threw

\* ---------------------------------------------------------------- C1
\* C1: a request of an ip that is not blocked is forwarded while it is among the
\* first RATE_LIMIT of its window, the next one is denied with 429 (for a
\* threshold above 1), and the first request after the window's expiry is
\* forwarded and starts a record with count 1 that expires one window later.
C1_WindowReset ==
  RateChecked =>
    /\ lastResp.cnt <= RATE_LIMIT => lastResp.out = "PASS"
    /\ (lastResp.cnt = RATE_LIMIT + 1 /\ VIOLATION_THRESHOLD > 1) => lastResp.out = "429"
    /\ lastResp.purged =>
         /\ lastResp.out = "PASS"
         /\ requestCounts[lastResp.inst][lastResp.ip] =
              [count |-> 1, expires |-> lastResp.now + RATE_WINDOW_MS]

\* a window overflowed and expired, and the next request was forwarded
C1_Witness ==
  /\ RateChecked /\ lastResp.purged /\ lastResp.out = "PASS"
  /\ wins[lastResp.inst][lastResp.ip] = 1

\* ---------------------------------------------------------------- C2
\* C2 as stated: the request that makes a window overflow, when the windows
\* before it overflowed too (VIOLATION_THRESHOLD windows in a row), gets 403.
C2_ConsecutiveWindows ==
  (RateChecked /\ lastResp.consec >= VIOLATION_THRESHOLD /\ lastResp.cnt = RATE_LIMIT + 1)
    => lastResp.out = "403"

\* C2 amended: the 403 of the escalation comes exactly with the request that
\* takes the count of one window to RATE_LIMIT + VIOLATION_THRESHOLD; an
\* over-limit request below that gets 429, whatever the windows before did.
C2_EscalationWithinWindow ==
  RateChecked =>
    /\ lastResp.cnt >= RATE_LIMIT + VIOLATION_THRESHOLD => lastResp.out = "403"
    /\ (lastResp.cnt > RATE_LIMIT /\ lastResp.cnt < RATE_LIMIT + VIOLATION_THRESHOLD)
         => lastResp.out = "429"
    /\ lastResp.out = "403" => lastResp.cnt >= RATE_LIMIT + VIOLATION_THRESHOLD

\* the 403 of an escalation, in a window that follows an overflowed one
C2_Witness ==
  /\ RateChecked /\ lastResp.out = "403"
  /\ lastResp.cnt = RATE_LIMIT + VIOLATION_THRESHOLD
  /\ lastResp.consec >= VIOLATION_THRESHOLD

\* ---------------------------------------------------------------- C3
\* C3: once the instance has answered 403 on the promotion of an ip, every
\* later request of that ip on the instance gets 403.
C3_BlockPermanent ==
  (lastResp.out # "none" /\ lastResp.afterPromo /\ ~lastResp.threw) => lastResp.out = "403"

\* ---------------------------------------------------------------- C4
\* C4 as stated: within one window the violation count goes up at most once.
C4_OncePerWindow ==
  \A i \in Instances, p \in IPs : violationCounts[i][p] <= 1

\* C4 amended: the violation count goes up by exactly 1 with every request
\* counted over the limit in the window, and never otherwise.
C4_OncePerOverLimitRequest ==
  [][\A i \in Instances, p \in IPs :
       LET c == requestCounts[i][p]
           d == requestCounts'[i][p]
           v == violationCounts[i][p]
           w == violationCounts'[i][p]
           counted == c.count > 0 /\ d.count = c.count + 1 /\ d.expires = c.expires
       IN /\ (counted /\ d.count > RATE_LIMIT) => w = v + 1
          /\ w > v => (w = v + 1 /\ counted /\ d.count > RATE_LIMIT)]_vars

\* two violations in one window
C4_Witness ==
  \E i \in Instances, p \in IPs :
    violationCounts[i][p] = 2 /\ requestCounts[i][p].count = RATE_LIMIT + 2

\* ---------------------------------------------------------------- C5
\* C5: after a window that overflowed and a next one that stayed within the
\* limit, the ip has no violation as long as it stays within the limit, and its
\* next overflow is reported as violation 1 with 429.
C5_ViolationDecay ==
  \A i \in Instances, p \in IPs :
    wins[i][p] = -1 =>
      /\ requestCounts[i][p].count <= RATE_LIMIT => violationCounts[i][p] = 0
      /\ (RateChecked /\ lastResp.inst = i /\ lastResp.ip = p
             /\ lastResp.cnt = RATE_LIMIT + 1)
           => (lastResp.vc = 1 /\ (VIOLATION_THRESHOLD > 1 => lastResp.out = "429"))

\* the overflow after the decay, answered 429 with violation 1
C5_Witness ==
  /\ RateChecked /\ wins[lastResp.inst][lastResp.ip] = -1
  /\ lastResp.cnt = RATE_LIMIT + 1 /\ lastResp.vc = 1 /\ lastResp.out = "429"

\* ---------------------------------------------------------------- C6
\* what the scenario expects of step k of the scripted client
ScnMatches(k) ==
  CASE k \in {1, 2, 5, 6} -> log[k].out = "PASS"
    [] k \in {3, 7} -> log[k].out = "429" /\ log[k].vc = 1
    [] k = ScnWaitAt -> log[k].out = "wait"
    [] k = 8 -> log[k].out = "403" /\ log[k].vc = 2
    [] OTHER -> log[k].out = "403"

\* C6 as stated: 200, 200, 429 (violation 1), a wait of one window length,
\* 200, 200, 429 (violation 1), 403 (violation 2), then 403 for ever.
C6_ScenarioAsStated ==
  \A k \in 1..Len(log) : ScnMatches(k)

\* request 4 came in after the first window's expiry had passed
ScnWaitedPastExpiry == Len(log) > ScnWaitAt => log[ScnWaitAt + 1].now > log[1].exp

\* C6 amended: the same answers, provided request 4 comes in after the first
\* window's windowExpiresAt has passed (now > windowExpiresAt), which a wait of
\* one window length after request 3 does not ensure.
C6_ScenarioPastExpiry ==
  ScnWaitedPastExpiry => \A k \in 1..Len(log) : ScnMatches(k)

\* the whole script has run, request 4 after the expiry
C6_Witness ==
  /\ Len(log) = ScenarioLen /\ Len(log) > ScnWaitAt
  /\ log[ScnWaitAt + 1].now > log[1].exp
  /\ log[Len(log)].out = "403"

\* ---------------------------------------------------------------- C7
\* C7: with every get and set failing, a request within the limit is forwarded,
\* the request that reaches the violation threshold gets 403, the promoted ip
\* stays in the instance's block list and its later requests get 403.
C7_FailOpenStoreDown ==
  /\ (RateChecked /\ lastResp.cnt <= RATE_LIMIT) => lastResp.out = "PASS"
  /\ (RateChecked /\ lastResp.vc >= VIOLATION_THRESHOLD) => lastResp.out = "403"
  /\ \A i \in Instances : promoted[i] \subseteq blockedIPs[i]
  /\ (lastResp.out # "none" /\ lastResp.afterPromo /\ ~lastResp.threw)
       => lastResp.out = "403"

\* a request of a promoted ip, answered 403 from the block list
C7_Witness ==
  lastResp.afterPromo /\ lastResp.out = "403" /\ lastResp.via = "cache"

\* ---------------------------------------------------------------- C8
\* C8 as stated: whenever something throws while a request is handled, the
\* request is forwarded.
C8_AnyExceptionForwards ==
  lastResp.threw => lastResp.out = "PASS"

\* C8 amended: what reaches the global handler is forwarded, and a request is
\* only ever forwarded or answered 429 or 403; what throws inside the try of
\* the refresh is caught there, and the request goes on to the rate limit.
C8_FailOpen ==
  /\ lastResp.via = "catch" => lastResp.out = "PASS"
  /\ lastResp.out \in {"none", "PASS", "429", "403"}

\* a denial that threw and was forwarded
C8_Witness ==
  lastResp.via = "catch" /\ lastResp.out = "PASS" /\ lastResp.vc >= 1

\* ---------------------------------------------------------------- C9
NoDuplicates(list) == \A p \in Range(list) : Occurrences(list, p) = 1

\* C9: the store list never holds an ip twice, and an append that is about to
\* write read a list without its ip.
C9_IdempotentAppend ==
  /\ NoDuplicates(store)
  /\ \A r \in InFlight :
       r.pc = "promote_set" =>
         /\ NoDuplicates(r.val)
         /\ r.val[Len(r.val)] = r.ip

\* both instances have promoted the ip, and the list holds it once
C9_Witness ==
  /\ store = <<"x">>
  /\ \A i \in Instances : "x" \in promoted[i]

\* ---------------------------------------------------------------- C10
\* C10: requests of one instance that come in less than a refresh interval
\* apart issue at most one store get between them.
C10_OneGetPerInterval ==
  \A r1, r2 \in InFlight :
    (/\ r1.inst = r2.inst
     /\ r1.pc \in {"refresh_get", "refresh_got"}
     /\ r2.pc \in {"refresh_get", "refresh_got"}
     /\ r1.now - r2.now < BLOCKLIST_REFRESH_MS
     /\ r2.now - r1.now < BLOCKLIST_REFRESH_MS)
    => (r1 = r2 /\ CopiesIn(r1, reqs) = 1)

\* ---------------------------------------------------------------- C11
\* C11: with "x" in the store list since Epoch, a request of "x" that comes in
\* later than Epoch + BLOCKLIST_REFRESH_MS on an instance whose gets succeed is
\* answered 403, also on the instance that never saw "x".
C11_BoundedStaleness ==
  (/\ lastResp.out # "none" /\ ~lastResp.threw
   /\ lastResp.inst = "A" /\ lastResp.ip = "x"
   /\ (lastResp.now > Epoch + BLOCKLIST_REFRESH_MS \/ lastResp.via = "promote"))
    => lastResp.out = "403"

\* "x" is answered 403 out of the list its request has just fetched, after the
\* instance had forwarded a request of "x"
C11_Witness ==
  /\ lastResp.out = "403" /\ lastResp.via = "refresh"
  /\ lastResp.inst = "A" /\ lastResp.ip = "x"
  /\ lastResp.now > Epoch + BLOCKLIST_REFRESH_MS
  /\ requestCounts["A"]["x"].count > 0

\* ---------------------------------------------------------------- C12
\* the requests of the scripted client that were forwarded at a time from t to
\* t + RATE_WINDOW_MS
PassesWithin(t) ==
  Cardinality({k \in 1..Len(log) :
                 log[k].out = "PASS" /\ log[k].now \in t..(t + RATE_WINDOW_MS)})

\* the requests of the scripted client that were forwarded and counted in the
\* window record that expires at e
PassesOfWindow(e) ==
  Cardinality({k \in 1..Len(log) : log[k].out = "PASS" /\ log[k].exp = e})

Times == Epoch..(Epoch + MaxTime + RATE_WINDOW_MS)

\* C12 as stated: in every interval of the length of a window, at most RATE_LIMIT
\* requests of the identity are forwarded.
C12_RollingWindowCap ==
  \A t \in Times : PassesWithin(t) <= RATE_LIMIT

\* C12 amended: at most RATE_LIMIT requests are forwarded out of one window
\* record; an interval of the length of a window that holds the expiry of a
\* record holds up to 2 * RATE_LIMIT - 1 forwarded requests.
C12_CapPerWindowRecord ==
  /\ \A e \in Times : PassesOfWindow(e) <= RATE_LIMIT
  /\ \A t \in Times : PassesWithin(t) <= 2 * RATE_LIMIT - 1

\* RATE_LIMIT requests forwarded out of each of two records, 2 * RATE_LIMIT - 1
\* of them within the length of one window
C12_Witness ==
  /\ \E t \in Times : PassesWithin(t) = 2 * RATE_LIMIT - 1
  /\ \E e1, e2 \in Times :
       e1 # e2 /\ PassesOfWindow(e1) = RATE_LIMIT /\ PassesOfWindow(e2) = RATE_LIMIT

\* ---------------------------------------------------------------- C13
\* C13: a 429 carries retryAfter = ceil((expires - now) / 1000), which lies
\* between 0 and ceil(RATE_WINDOW_MS / 1000); its violationCount is the violation
\* count of the ip after this overflow, at least 1 and below the threshold.
C13_RetryAfterInRange ==
  lastResp.out = "429" =>
    /\ RetryAfter(lastResp.exp, lastResp.now) >= 0
    /\ RetryAfter(lastResp.exp, lastResp.now) <= RetryAfter(RATE_WINDOW_MS, 0)
    /\ lastResp.vc = violationCounts[lastResp.inst][lastResp.ip]
    /\ lastResp.vc >= 1 /\ lastResp.vc < VIOLATION_THRESHOLD

\* ---------------------------------------------------------------- C14
\* C14: a request of an ip found in the block list, at its arrival in the cache
\* or in the list its refresh has fetched, leaves every window record and every
\* violation count as they were, and is answered 403 (unless building that
\* response throws).
C14_BlockedLeavesRecords ==
  [][/\ (/\ lastResp'.out # "none" /\ reqs' = reqs
          /\ lastResp'.ip \in blockedIPs[lastResp'.inst])
        => /\ UNCHANGED <<requestCounts, violationCounts>>
           /\ ~lastResp'.threw => lastResp'.out = "403"
     /\ \A r \in InFlight :
          (/\ r.pc = "refresh_got" /\ \E k \in 1..Len(r.val) : r.val[k] = r.ip
           /\ reqs' = Others(r)
           /\ lastResp'.out # "none" /\ ~lastResp'.threw)
          => /\ lastResp'.out = "403"
             /\ UNCHANGED <<requestCounts, violationCounts>>]_vars

\* a request answered 403 out of the list it has fetched, the record of its ip
\* still there
C14_Witness ==
  /\ lastResp.out = "403" /\ lastResp.via = "refresh"
  /\ requestCounts[lastResp.inst][lastResp.ip].count > 0

\* ---------------------------------------------------------------- C15
\* C15: with ENABLE_RATE_LIMIT "false" no request is answered 429, however many
\* a client sends in a window; with it "true" or not set, a request beyond max in
\* one window is answered 429.
C15_FeatureFlag ==
  lastResp.via = "express" =>
    /\ express.env = "false" => lastResp.out = "PASS"
    /\ (express.env \in {"true", "undefined"} /\ express.sent[lastResp.ip] > max)
         => lastResp.out = "429"
    /\ express.sent[lastResp.ip] <= max => lastResp.out = "PASS"

\* the limiter off, and the request after max is forwarded
C15_Witness ==
  /\ lastResp.via = "express" /\ express.env = "false"
  /\ express.sent[lastResp.ip] = max + 1 /\ lastResp.out = "PASS"

\* ---------------------------------------------------------------- C16
\* the tokens of a text before its first ","
BeforeFirstComma(text) ==
  LET commas == {k \in 1..Len(text) : text[k] = ","}
      first == IF commas = {} THEN Len(text) + 1
               ELSE CHOOSE k \in commas : \A j \in commas : k <= j
  IN SubSeq(text, 1, first - 1)

\* the header is missing or empty
Unidentified(h) == ~h.present \/ h.text = << >>

\* ip is what the header h resolves to
FirstElementOrUnknown(h, ip) ==
  IF h.present /\ BeforeFirstComma(h.text) # << >>
    THEN <<ip>> = BeforeFirstComma(h.text)
    ELSE ip = "unknown"

\* C16: the identity of a request is the first comma-separated element of its
\* forwarding header, "unknown" when the header is missing or empty (or the
\* element is empty); the requests without identity are counted in the one
\* record of "unknown".
C16_IdentityResolution ==
  /\ \A r \in InFlight : FirstElementOrUnknown(r.hdr, r.ip)
  /\ lastResp.out # "none" => FirstElementOrUnknown(lastResp.hdr, lastResp.ip)
  /\ (lastResp.via \in {"next", "rate"} /\ Unidentified(lastResp.hdr))
       => requestCounts[lastResp.inst]["unknown"].count = lastResp.cnt

\* a request with an empty header is answered 403: "unknown" has been blocked
C16_Witness ==
  /\ lastResp.hdr = Hdr(<< >>) /\ lastResp.out = "403" /\ lastResp.via = "cache"
  /\ requestCounts["A"]["x"].count > 0

\* ---------------------------------------------------------------- C17
\* C17 as stated: a request is answered out of the cache, without a refresh,
\* only while the cache is not stale.
C17_RefreshBeforeLookup ==
  (lastResp.via = "cache" /\ edgeConfig[lastResp.inst])
    => lastResp.now - lastBlocklistRefresh[lastResp.inst] <= BLOCKLIST_REFRESH_MS

\* the step takes a new request in
Arrives ==
  /\ clock' = clock
  /\ \/ BagCardinality(reqs') = BagCardinality(reqs) + 1
     \/ BagCardinality(reqs') = BagCardinality(reqs) /\ lastResp'.out # "none"

\* C17 amended: the lookup in the cache comes first. A request of an ip in the
\* cache is answered at once, with no get and the cache and the refresh
\* timestamp as they were, however stale the cache is; a request issues the get
\* of a refresh exactly when its ip is not in the cache and
\* now - lastBlocklistRefresh > BLOCKLIST_REFRESH_MS; and the 403 of a refresh
\* is decided against the list the get returned.
C17_LookupBeforeRefresh ==
  [][/\ \A r \in BagToSet(reqs') :
          (Arrives /\ CopiesIn(r, reqs') > CopiesIn(r, reqs)) =>
            /\ r.ip \notin blockedIPs[r.inst]
            /\ r.pc = "refresh_get"
                 <=> (edgeConfig[r.inst]
                        /\ clock - lastBlocklistRefresh[r.inst] > BLOCKLIST_REFRESH_MS)
     /\ (Arrives /\ reqs' = reqs) =>
          /\ ~lastResp'.threw =>
               (lastResp'.via = "cache" <=> lastResp'.ip \in blockedIPs[lastResp'.inst])
          /\ lastResp'.via = "cache" =>
               /\ lastResp'.out = "403"
               /\ UNCHANGED <<blockedIPs, lastBlocklistRefresh>>
          /\ lastResp'.via \in {"next", "rate", "promote"} =>
               ~(edgeConfig[lastResp'.inst]
                   /\ clock - lastBlocklistRefresh[lastResp'.inst] > BLOCKLIST_REFRESH_MS)
     /\ lastResp'.via = "refresh" =>
          \E r \in InFlight :
            /\ r.pc = "refresh_got" /\ r.ip = lastResp'.ip
            /\ \E k \in 1..Len(r.val) : r.val[k] = r.ip
            /\ lastResp'.out = "403"]_vars

\* an ip in the cache is answered 403 by the lookup while the cache is stale
\* and the store list does not hold it
C17_Witness ==
  /\ lastResp.via = "cache" /\ lastResp.out = "403"
  /\ lastResp.now - lastBlocklistRefresh[lastResp.inst] > BLOCKLIST_REFRESH_MS
  /\ \A k \in 1..Len(store) : store[k] # lastResp.ip

\* ---------------------------------------------------------------- C18
\* the requests of instance i that have issued the get of a refresh and wait
\* for its answer
Refreshing(i) ==
  {r \in InFlight : r.inst = i /\ r.pc \in {"refresh_get", "refresh_got"}}

\* C18: of the requests in flight on one instance at most one has issued the
\* get of a refresh.
C18_OneRefreshInFlight ==
  \A i \in Instances :
    /\ Cardinality(Refreshing(i)) <= 1
    /\ \A r \in Refreshing(i) : CopiesIn(r, reqs) = 1

\* ---------------------------------------------------------------- C19
\* C19: an ip whose promotion waits for the get or the set of its append is in
\* the block list of its instance, and it is still there when the promotion is
\* answered 403, whatever the store did.
C19_PromotionLocalFirst ==
  /\ \A r \in InFlight :
       r.pc \in {"promote_get", "promote_set"} => r.ip \in blockedIPs[r.inst]
  /\ (lastResp.via = "promote" /\ lastResp.out = "403")
       => lastResp.ip \in blockedIPs[lastResp.inst]

\* ---------------------------------------------------------------- C20
\* the list as a set of identities
Fetched(list) == {list[k] : k \in 1..Len(list)}

\* the step promotes the ip of r: a request of r.ip starts to wait for the get
\* of its append
Promotes(r) ==
  \E q \in BagToSet(reqs') :
    /\ q.pc = "promote_get" /\ q.inst = r.inst /\ q.ip = r.ip
    /\ CopiesIn(q, reqs') > CopiesIn(q, reqs)

\* C20: when the get of a refresh returns a list to request r, the block list
\* of the instance becomes exactly the set of the identities in that list (the
\* empty set for the empty answer), and lastBlocklistRefresh becomes r's
\* timestamp; only the ip of r itself is added again when r, going on to the
\* rate limit in the same run, reaches the violation threshold.
C20_RefreshReplacesCache ==
  [][\A r \in InFlight :
       (r.pc = "refresh_got" /\ CopiesIn(r, reqs') < CopiesIn(r, reqs)) =>
         /\ lastBlocklistRefresh'[r.inst] = r.now
         /\ blockedIPs'[r.inst] =
              IF Promotes(r) THEN Fetched(r.val) \cup {r.ip} ELSE Fetched(r.val)]_vars

\* a refresh has just returned the list that holds "x" to a request of "x": the
\* block list is that list, the timestamp is the request's, and "x" gets 403
C20_Witness ==
  /\ lastResp.via = "refresh" /\ lastResp.out = "403" /\ lastResp.ip = "x"
  /\ store = <<"x">>
  /\ blockedIPs[lastResp.inst] = {"x"}
  /\ lastBlocklistRefresh[lastResp.inst] = lastResp.now

\* ---------------------------------------------------------------- C21
\* the step ends the wait of r for the get of its refresh with an exception:
\* r is no longer waiting, and no answer of the store is on its way to it
RefreshFails(r) ==
  /\ r.pc = "refresh_get"
  /\ CopiesIn(r, reqs') < CopiesIn(r, reqs)
  /\ \A q \in BagToSet(reqs') :
       (q.pc = "refresh_got" /\ q.inst = r.inst /\ q.now = r.now /\ q.ip = r.ip)
         => CopiesIn(q, reqs') <= CopiesIn(q, reqs)

\* the step ends the append of r with the store list as it was
AppendEnds(r) ==
  /\ r.pc \in {"promote_get", "promote_set"}
  /\ CopiesIn(r, reqs') < CopiesIn(r, reqs)
  /\ BagCardinality(reqs') < BagCardinality(reqs)
  /\ store' = store

\* C21: a refresh whose get throws leaves the block list and the refresh
\* timestamp as they were (the request's own ip is added when the request, going
\* on to the rate limit, reaches the violation threshold), and the request is
\* answered by its window and violation records alone; an append that fails
\* leaves the block list, the timestamp and the records as they were, and the
\* request gets 403.
C21_FailureFrame ==
  [][\A r \in InFlight :
       /\ RefreshFails(r) =>
            /\ lastBlocklistRefresh' = lastBlocklistRefresh
            /\ blockedIPs' =
                 IF Promotes(r)
                   THEN [blockedIPs EXCEPT ![r.inst] = @ \cup {r.ip}]
                   ELSE blockedIPs
            /\ LET rec == requestCounts'[r.inst][r.ip]
                   v == violationCounts'[r.inst][r.ip]
               IN /\ rec.count > 0
                  /\ Promotes(r) <=> (rec.count > RATE_LIMIT /\ v >= VIOLATION_THRESHOLD)
                  /\ ~Promotes(r) =>
                       /\ lastResp'.ip = r.ip /\ lastResp'.inst = r.inst
                       /\ ~lastResp'.threw =>
                            lastResp'.out = IF rec.count > RATE_LIMIT THEN "429" ELSE "PASS"
       /\ AppendEnds(r) =>
            /\ UNCHANGED <<blockedIPs, lastBlocklistRefresh, requestCounts, violationCounts>>
            /\ lastResp'.ip = r.ip /\ lastResp'.inst = r.inst
            /\ ~lastResp'.threw => lastResp'.out = "403"]_vars

\* the append of a promotion has failed on an instance that had refreshed
\* before: the request got its 403, its ip is in the block list, the timestamp
\* is set and the store list is still empty
C21_Witness ==
  /\ lastResp.via = "promote" /\ lastResp.out = "403"
  /\ store = << >>
  /\ blockedIPs[lastResp.inst] = {lastResp.ip}
  /\ lastBlocklistRefresh[lastResp.inst] > 0

\* ---------------------------------------------------------------- C22
\* C22: a request whose refresh get or whose append throws is answered as the
\* same request is on an instance that attempts no store operation, from the
\* same window, violation and block list state at the same time, and it leaves
\* the same window, violation and block list state behind.
C22_FailureIsNoAttempt ==
  [][(lastResp'.out # "none" /\ lastResp'.inst = "B") =>
       /\ lastResp.out # "none" /\ lastResp.inst = "A"
       /\ lastResp'.hdr = lastResp.hdr /\ lastResp'.ip = lastResp.ip
       /\ lastResp'.out = lastResp.out
       /\ requestCounts'["B"] = requestCounts'["A"]
       /\ violationCounts'["B"] = violationCounts'["A"]
       /\ blockedIPs'["B"] = blockedIPs'["A"]]_vars

\* with "x" in both block lists, a request without identity has been forwarded
\* by both instances: the refresh of "A" failed on a block list that was not
\* empty
C22_Witness ==
  /\ lastResp.inst = "B" /\ lastResp.ip = "unknown" /\ lastResp.out = "PASS"
  /\ blockedIPs["A"] = {"x"} /\ blockedIPs["B"] = {"x"}
  /\ "x" \in promoted["A"] /\ store = << >>

\* ---------------------------------------------------------------- C23
\* the step delivers to a request of instance i the answer of the store to the
\* get of its refresh, a list that holds p
RefreshBrings(i, p) ==
  \E r \in InFlight :
    /\ r.pc = "refresh_got" /\ r.inst = i
    /\ CopiesIn(r, reqs') < CopiesIn(r, reqs)
    /\ \E k \in 1..Len(r.val) : r.val[k] = p

\* C23: an ip enters the block list of an instance only out of the list a
\* refresh of that instance has fetched, or when a request of it on that
\* instance takes its violation count to the threshold; and a 403 is given only
\* to an ip that is in the block list of the instance, that is in the list the
\* request's own refresh has fetched, or whose own request reached the
\* threshold.  So the promotion of another instance is not enforced before a
\* refresh has fetched it.
C23_NoSpuriousBlock ==
  [][/\ \A i \in Instances, p \in IPs :
          (p \in blockedIPs'[i] /\ p \notin blockedIPs[i]) =>
            \/ RefreshBrings(i, p)
            \/ /\ violationCounts'[i][p] >= VIOLATION_THRESHOLD
               /\ violationCounts'[i][p] = violationCounts[i][p] + 1
     /\ lastResp'.out = "403" =>
          \/ lastResp'.via = "cache" /\ lastResp'.ip \in blockedIPs[lastResp'.inst]
          \/ lastResp'.via = "refresh" /\ RefreshBrings(lastResp'.inst, lastResp'.ip)
          \/ lastResp'.via = "promote" /\ lastResp'.vc >= VIOLATION_THRESHOLD]_vars

\* "B" answers 403 to "x" out of the list its refresh has fetched, after "A"
\* has promoted "x"; "B" has not promoted it
C23_Witness ==
  /\ lastResp.inst = "B" /\ lastResp.out = "403" /\ lastResp.via = "refresh"
  /\ "x" \in promoted["A"] /\ "x" \notin promoted["B"]
  /\ violationCounts["B"]["x"] < VIOLATION_THRESHOLD

\* ---------------------------------------------------------------- C24
\* the instances that have promoted p and ended its append: they have written
\* the list with p, or found p in the list they read
Appended(p) == {i \in Instances : p \in promoted[i]}

\* C24: whatever the interleaving of the gets and sets of the appends, the
\* identity that was in the store list before them stays in it, every list
\* that is about to be written holds it, and once an append has been written
\* the list holds one of the promoted identities at least; it need not hold
\* both (C24_Witness).
C24_LostUpdateKeepsEarlier ==
  /\ \E k \in 1..Len(store) : store[k] = Earlier
  /\ \A r \in InFlight :
       r.pc = "promote_set" => \E k \in 1..Len(r.val) : r.val[k] = Earlier
  /\ (\E p \in IPs : Appended(p) # {}) =>
       \E p \in IPs : Appended(p) # {} /\ \E k \in 1..Len(store) : store[k] = p

\* "A" has appended "x" and "B" has appended "unknown", no request is in
\* flight, and the store list holds only one of the two
C24_Witness ==
  /\ reqs = EmptyBag
  /\ "A" \in Appended("x") /\ "B" \in Appended("unknown")
  /\ Len(store) = 2 /\ store[1] = Earlier

\* ---------------------------------------------------------------- C25
\* C25 as stated: a request that is not yet answered waits for nothing but the
\* get of a refresh.
C25_WaitsForRefreshOnly ==
  \A r \in InFlight : r.pc \in {"refresh_get", "refresh_got"}

\* the step ends the wait of r for the get or the set of its append, and r is
\* answered
AppendAnswered(r) ==
  /\ r.pc \in {"promote_get", "promote_set"}
  /\ CopiesIn(r, reqs') < CopiesIn(r, reqs)
  /\ BagCardinality(reqs') < BagCardinality(reqs)

\* C25 amended: a request waits for the store at the get of its refresh and,
\* when it triggers the promotion on an instance that has a store client, at
\* the get and at the set of the append: the step that takes the violation
\* count to the threshold answers nothing, the 403 of the promotion comes only
\* when the get has found the ip, when the set has returned or when one of the
\* two has thrown, and whatever the store did the answer is 403.
C25_PromotionWaitsForAppend ==
  [][/\ \A r \in BagToSet(reqs') :
          r.pc \in {"refresh_get", "refresh_got", "promote_get", "promote_set"}
     /\ \A r \in InFlight :
          /\ (Promotes(r) \/ (Arrives /\ \E q \in BagToSet(reqs') :
                                 q.pc = "promote_get" /\ CopiesIn(q, reqs') > CopiesIn(q, reqs)))
               => lastResp'.out = "none"
          /\ AppendAnswered(r) =>
               /\ lastResp'.ip = r.ip /\ lastResp'.inst = r.inst
               /\ ~lastResp'.threw => (lastResp'.out = "403" /\ lastResp'.via = "promote")
     /\ (lastResp'.via = "promote" /\ edgeConfig[lastResp'.inst]) =>
          \E r \in InFlight : AppendAnswered(r) /\ r.ip = lastResp'.ip
                                /\ r.vc >= VIOLATION_THRESHOLD]_vars

\* a request that has taken its ip to the threshold waits, unanswered, for the
\* set of its append
C25_Witness ==
  /\ lastResp.out = "none"
  /\ \E r \in InFlight :
       /\ r.pc = "promote_set" /\ r.vc >= VIOLATION_THRESHOLD
       /\ r.ip \in blockedIPs[r.inst]

\* ---------------------------------------------------------------- C26
\* C26: a request that went through the window count is forwarded exactly when
\* the count it has brought its record to is at most RATE_LIMIT; a forwarded
\* request has created its record with count 1 or has raised the count of the
\* record that was there by 1, so that the forwarded requests of one record
\* carry the counts 1, 2, ... and are RATE_LIMIT at most.
C26_ForwardedWithinLimit ==
  [][(lastResp'.out # "none" /\ lastResp'.cnt > 0 /\ ~lastResp'.threw) =>
       LET c == requestCounts[lastResp'.inst][lastResp'.ip]
           d == requestCounts'[lastResp'.inst][lastResp'.ip]
       IN /\ lastResp'.out = "PASS" <=> lastResp'.cnt <= RATE_LIMIT
          /\ lastResp'.out = "PASS" =>
               /\ d = [count |-> lastResp'.cnt, expires |-> lastResp'.exp]
               /\ \/ d.count = 1 /\ (c.count = 0 \/ lastResp'.now > c.expires)
                  \/ d.count = c.count + 1 /\ d.expires = c.expires /\ c.count > 0]_vars

\* the request that fills its window is forwarded while another request is
\* waiting for the store
C26_Witness ==
  /\ lastResp.out = "PASS" /\ lastResp.cnt = RATE_LIMIT /\ ~lastResp.threw
  /\ reqs # EmptyBag

\* ---------------------------------------------------------------- C27
\* C27 as stated: an ip enters the block list of an instance only when that
\* instance has recorded VIOLATION_THRESHOLD violations of it.
C27_AddedAtThresholdOnly ==
  [][\A i \in Instances, p \in IPs :
       (p \in blockedIPs'[i] /\ p \notin blockedIPs[i])
         => violationCounts'[i][p] >= VIOLATION_THRESHOLD]_vars

\* the step applies the set of the append of a request that had reached the
\* threshold, and the list it writes ends with the ip of that request
WrittenAtThreshold ==
  \E r \in InFlight :
    /\ r.pc = "promote_set" /\ CopiesIn(r, reqs') < CopiesIn(r, reqs)
    /\ store' = r.val /\ r.val[Len(r.val)] = r.ip
    /\ r.vc >= VIOLATION_THRESHOLD

\* C27 amended: a request counted over the limit is answered 403 and promotes
\* its ip exactly when it has taken the violation count to
\* VIOLATION_THRESHOLD or above, and is answered 429 otherwise; the promotion
\* is the only way an instance adds an ip to its block list (at the moment its
\* violation count reaches the threshold) or to the store list (by the request
\* that reached it), the other being the refresh, which copies the store list
\* into the block list whatever the violations recorded on the instance.
C27_PromotionAtThreshold ==
  [][/\ (lastResp'.out # "none" /\ lastResp'.cnt > RATE_LIMIT /\ ~lastResp'.threw) =>
          /\ lastResp'.out = (IF lastResp'.vc >= VIOLATION_THRESHOLD THEN "403" ELSE "429")
          /\ lastResp'.out = "403" => lastResp'.via = "promote"
     /\ \A i \in Instances, p \in IPs :
          LET c == requestCounts'[i][p]
              v == violationCounts[i][p]
              w == violationCounts'[i][p]
          IN /\ (p \in blockedIPs'[i] /\ p \notin blockedIPs[i]) =>
                  \/ RefreshBrings(i, p)
                  \/ w = v + 1 /\ w >= VIOLATION_THRESHOLD /\ c.count > RATE_LIMIT
             /\ (w = v + 1 /\ w >= VIOLATION_THRESHOLD) => p \in blockedIPs'[i]
     /\ store' # store => WrittenAtThreshold]_vars

\* "A" has answered 429 and then promoted "x" and appended it, and the refresh
\* of "B", which has recorded one violation of "x", has fetched it
C27_Witness ==
  /\ lastResp.via = "refresh" /\ lastResp.out = "403" /\ lastResp.ip = "x"
  /\ lastResp.inst = "B" /\ "x" \in blockedIPs["B"]
  /\ violationCounts["B"]["x"] = VIOLATION_THRESHOLD - 1
  /\ "x" \in promoted["A"] /\ store = <<"x">>

\* ---------------------------------------------------------------- C28
\* the timestamps of the requests the step can go on with: the one that comes
\* in, and those that wait for the get of their refresh
Nows == {clock} \cup {r.now : r \in {q \in InFlight : q.pc \in {"refresh_get", "refresh_got"}}}

\* C28: the record of an ip changes in three ways only.  It is created with
\* count 1 and expires = now + RATE_WINDOW_MS by a request of the ip that finds
\* no record or an expired one; its count goes up by exactly 1, expires as it
\* was, with a request of the ip; it is removed once it has expired.  Every
\* request that is forwarded or answered 429 has done the first or the second
\* to the record of its ip, and a record has a count of 1 at least.
C28_WindowCounter ==
  [][/\ \A i \in Instances, p \in IPs :
          LET c == requestCounts[i][p]
              d == requestCounts'[i][p]
          IN \/ d = c
             \/ /\ d.count = 1
                /\ \E t \in Nows : /\ d.expires = t + RATE_WINDOW_MS
                                   /\ c.count = 0 \/ t > c.expires
             \/ c.count >= 1 /\ d.count = c.count + 1 /\ d.expires = c.expires
             \/ c.count >= 1 /\ d = NoRecord /\ \E t \in Nows : t > c.expires
     /\ (lastResp'.via \in {"next", "rate"} /\ ~lastResp'.threw) =>
          LET c == requestCounts[lastResp'.inst][lastResp'.ip]
              d == requestCounts'[lastResp'.inst][lastResp'.ip]
          IN /\ d.count = lastResp'.cnt /\ d.expires = lastResp'.exp
             /\ d # c
             /\ d = IF c.count = 0 \/ lastResp'.now > c.expires
                      THEN [count |-> 1, expires |-> lastResp'.now + RATE_WINDOW_MS]
                      ELSE [count |-> c.count + 1, expires |-> c.expires]]_vars

\* a request answered 429 has raised the count of a record that another
\* identity's request has left alone
C28_Witness ==
  /\ lastResp.out = "429" /\ lastResp.ip = "x"
  /\ requestCounts["A"]["x"].count = RATE_LIMIT + 1
  /\ requestCounts["A"]["unknown"].count >= 1
  /\ requestCounts["A"]["unknown"].expires # requestCounts["A"]["x"].expires

\* ---------------------------------------------------------------- C29
\* C29: a request that is forwarded or answered 429 at a time now leaves every
\* record with now <= expires in place and removes every record with
\* now > expires; at now = expires of the record of its own ip it is counted in
\* that record, and answered 429 when that takes the count over RATE_LIMIT; at
\* any later now it is forwarded as the first request of a new record.
C29_ExpiryBoundary ==
  [][(lastResp'.via \in {"next", "rate"} /\ ~lastResp'.threw) =>
       LET i == lastResp'.inst
           own == lastResp'.ip
           now == lastResp'.now
       IN \A p \in IPs :
            LET c == requestCounts[i][p]
                d == requestCounts'[i][p]
            IN c.count >= 1 =>
                 /\ now <= c.expires =>
                      /\ d.expires = c.expires
                      /\ d.count = IF p = own THEN c.count + 1 ELSE c.count
                      /\ (p = own /\ d.count > RATE_LIMIT) => lastResp'.out = "429"
                 /\ now > c.expires =>
                      IF p = own
                        THEN /\ d = [count |-> 1, expires |-> now + RATE_WINDOW_MS]
                             /\ lastResp'.out = "PASS"
                        ELSE d = NoRecord]_vars

\* a request that comes in at the very expiry of a full window is answered 429
C29_Witness ==
  /\ lastResp.out = "429" /\ lastResp.via = "rate"
  /\ lastResp.now = lastResp.exp
  /\ lastResp.cnt = RATE_LIMIT + 1

\* ---------------------------------------------------------------- C30
\* the timestamp of the request that acts in the step
StepNows == IF reqs = EmptyBag THEN {clock} ELSE {r.now : r \in InFlight}

\* C30: once a request has gone through the window count with timestamp now,
\* the instance holds no record, of any ip, with expires < now, and no
\* violation count of an ip that has no record; and at all times an ip with a
\* violation count has a record that is over the limit.
C30_Sweep ==
  [][/\ \A i \in Instances :
          requestCounts'[i] # requestCounts[i] =>
            \A p \in IPs, now \in StepNows :
              /\ requestCounts'[i][p].count >= 1 => requestCounts'[i][p].expires >= now
              /\ requestCounts'[i][p].count = 0 => violationCounts'[i][p] = 0
     /\ \A i \in Instances, p \in IPs :
          violationCounts'[i][p] > 0 => requestCounts'[i][p].count > RATE_LIMIT]_vars

\* a forwarded request of "x" has left no record and no violation of the
\* requests without identity, whose last window had overflowed and expired
C30_Witness ==
  /\ lastResp.ip = "x" /\ lastResp.out = "PASS"
  /\ requestCounts["A"]["unknown"] = NoRecord
  /\ violationCounts["A"]["unknown"] = 0
  /\ wins["A"]["unknown"] >= 1

\* ---------------------------------------------------------------- C31
\* the window records, violation counts, block list and refresh timestamp of
\* instance i
Local(i) == <<requestCounts[i], violationCounts[i], blockedIPs[i], lastBlocklistRefresh[i]>>

\* the instance whose request acts in the step: it is answered, or it starts
\* or goes on waiting
ActsOn(i) ==
  \/ lastResp'.out # "none" /\ lastResp'.inst = i
  \/ \E q \in BagToSet(reqs') : q.inst = i /\ CopiesIn(q, reqs') > CopiesIn(q, reqs)

Terminal == {"PASS", "429", "403"}

\* C32: with every store call answered in the end, a request that waits is
\* answered in the end; a request ends with one answer, which is PASS, 429 or
\* 403, and every answer ends a request; and a 429 or the 403 of a promotion is
\* given only to a request that was counted, over the limit, in its window.
C32_Termination ==
  /\ (reqs # EmptyBag) ~> (reqs = EmptyBag /\ lastResp.out \in Terminal)
  /\ [][/\ BagCardinality(reqs') < BagCardinality(reqs) => lastResp'.out \in Terminal
        /\ lastResp'.out # "none" =>
             /\ lastResp'.out \in Terminal
             /\ BagCardinality(reqs') <= BagCardinality(reqs)
             /\ reqs' # reqs => BagCardinality(reqs') = BagCardinality(reqs) - 1]_vars
  /\ []((lastResp.out = "429" \/ (lastResp.out = "403" /\ lastResp.via = "promote"))
          => lastResp.cnt > RATE_LIMIT)

\* a request has waited for its refresh and for the get and the set of its
\* append, and has got its 403
C32_Witness ==
  /\ reqs = EmptyBag
  /\ lastResp.out = "403" /\ lastResp.via = "promote"
  /\ store = <<"x">>
  /\ "x" \in promoted["A"]

\* ---------------------------------------------------------------- C33
\* C33: on an instance without store client no request ever waits for the
\* store, the refresh timestamp stays as it was and the store list is never
\* written by it; and its requests are answered, and its window records,
\* violation counts and block list are left, as on an instance whose store is
\* there and answers.
C33_NoStoreClient ==
  [][/\ \A r \in BagToSet(reqs') : edgeConfig[r.inst]
     /\ \A i \in Instances :
          ~edgeConfig[i] => lastBlocklistRefresh'[i] = lastBlocklistRefresh[i]
     /\ (lastResp'.out # "none" /\ ~edgeConfig[lastResp'.inst]) =>
          /\ store' = store
          /\ lastResp.out # "none" /\ edgeConfig[lastResp.inst]
          /\ lastResp'.hdr = lastResp.hdr /\ lastResp'.out = lastResp.out
          /\ requestCounts'[lastResp'.inst] = requestCounts'[lastResp.inst]
          /\ violationCounts'[lastResp'.inst] = violationCounts'[lastResp.inst]
          /\ blockedIPs'[lastResp'.inst] = blockedIPs'[lastResp.inst]]_vars

\* the instance without client has promoted "x" on its own, has answered its
\* next request 403 out of its block list, and has never refreshed; the other
\* instance has refreshed and has written "x" to the store
C33_Witness ==
  /\ lastResp.inst = "B" /\ lastResp.ip = "x"
  /\ lastResp.out = "403" /\ lastResp.via = "cache"
  /\ lastBlocklistRefresh["B"] = 0 /\ lastBlocklistRefresh["A"] > 0
  /\ store = <<"x">>

\* ---------------------------------------------------------------- C34
\* C34: on every instance an ip with a violation count has a window record,
\* and the violation count of an ip is the number of requests its record has
\* counted beyond RATE_LIMIT (0 when there is no record, or none beyond).
C34_CounterCoupling ==
  \A i \in Instances, p \in IPs :
    LET c == requestCounts[i][p]
        v == violationCounts[i][p]
    IN /\ v > 0 => c.count >= 1
       /\ v = IF c.count > RATE_LIMIT THEN c.count - RATE_LIMIT ELSE 0

\* an ip that went on being counted past its promotion: one violation more
\* than the threshold, one request more in the record
C34_Witness ==
  \E i \in Instances, p \in IPs :
    /\ violationCounts[i][p] = VIOLATION_THRESHOLD + 1
    /\ requestCounts[i][p].count = RATE_LIMIT + VIOLATION_THRESHOLD + 1

\* ---------------------------------------------------------------- C35
\* C35: the refresh timestamp of an instance changes only in the step in which
\* the get of a refresh returns a list, and then to the timestamp of that
\* request; so with every get failing it stays as it was, and every request
\* that comes in while the cache is stale and is not answered 403 out of the
\* block list issues a get of its own.
C35_NoBackOff ==
  [][/\ \A i \in Instances :
          lastBlocklistRefresh'[i] # lastBlocklistRefresh[i] =>
            \E r \in InFlight :
              /\ r.pc = "refresh_got" /\ r.inst = i
              /\ CopiesIn(r, reqs') < CopiesIn(r, reqs)
              /\ lastBlocklistRefresh'[i] = r.now
     /\ \A i \in Instances :
          (/\ Arrives
           /\ ActsOn(i)
           /\ edgeConfig[i]
           /\ clock - lastBlocklistRefresh[i] > BLOCKLIST_REFRESH_MS) =>
            \/ lastResp'.via \in {"cache", "catch"} /\ lastResp'.ip \in blockedIPs[i]
            \/ \E q \in BagToSet(reqs') :
                 /\ q.pc = "refresh_get" /\ q.inst = i /\ q.now = clock
                 /\ CopiesIn(q, reqs') = CopiesIn(q, reqs) + 1]_vars

\* after a request whose get failed has been counted, two more requests wait
\* for gets of their own, and the timestamp is where it was at the start
C35_Witness ==
  /\ lastBlocklistRefresh["A"] = 0
  /\ requestCounts["A"]["x"].count >= 1
  /\ \E r \in InFlight : r.pc = "refresh_get" /\ CopiesIn(r, reqs) = 2

\* ---------------------------------------------------------------- C36
\* C36: when the get of a refresh returns to request r a list without p, an ip
\* that is in the block list of the instance and whose promotion is still
\* waiting for its append stays in the block list.
C36_PromotionSurvivesRefresh ==
  [][\A r \in InFlight :
       (r.pc = "refresh_got" /\ CopiesIn(r, reqs') < CopiesIn(r, reqs)) =>
         \A q \in InFlight :
           (/\ q.pc \in {"promote_get", "promote_set"} /\ q.inst = r.inst
            /\ q.ip \in blockedIPs[r.inst]
            /\ \A k \in 1..Len(r.val) : r.val[k] # q.ip)
             => q.ip \in blockedIPs'[r.inst]]_vars

\* ---------------------------------------------------------------- C37
\* the identities of the request that acts in the step, requests being served
\* one at a time: the one that arrives, or the one whose await returns
StepActors ==
  IF reqs = EmptyBag
    THEN {q.ip : q \in BagToSet(reqs')}
           \cup (IF reqs' = EmptyBag THEN {lastResp'.ip} ELSE {})
    ELSE {r.ip : r \in InFlight}

\* C37: a step of a request leaves the record and the violation count of every
\* other ip as they were when that record has not expired at the request's
\* timestamp, and when it has expired either leaves them or removes both.
C37_NonInterference ==
  [][\A i \in Instances, p \in IPs \ StepActors :
       LET c == requestCounts[i][p]
           d == requestCounts'[i][p]
           v == violationCounts[i][p]
           w == violationCounts'[i][p]
           gone == \E now \in StepNows : Expired(c, now)
       IN /\ ~gone => (d = c /\ w = v)
          /\ gone => ((d = c /\ w = v) \/ (d = NoRecord /\ w = 0))]_vars

\* a request without identity has been answered 429 in its own record while
\* the record of "x", over the limit and with a violation, has not expired
C37_Witness ==
  /\ lastResp.out = "429" /\ lastResp.ip = "unknown" /\ ~lastResp.threw
  /\ requestCounts["A"]["unknown"].count > RATE_LIMIT
  /\ violationCounts["A"]["unknown"] >= 1
  /\ requestCounts["A"]["x"].count > RATE_LIMIT
  /\ violationCounts["A"]["x"] >= 1
  /\ requestCounts["A"]["x"].expires >= lastResp.now

====
